---- MODULE Spec2Model ----
(***************************************************************************)
(* State-machine model of attached_assets/ga4_backdate_chunked.py: the     *)
(* date-range chunker (iter_chunks), the adaptive fetch session            *)
(* (fetch_chunked), the per-property fetch loop that normalizes responses  *)
(* into rows, and the stage-then-MERGE upload into the target table.       *)
(*                                                                         *)
(* Dates are day ordinals counted from 2024-01-01 (1 = 2024-01-01,          *)
(* 0 = 2023-12-31, negative before); the strings the program formats and   *)
(* parses are modelled as [y, m, d] records.                               *)
(***************************************************************************)
EXTENDS Integers, Sequences, FiniteSets, TLC

VARIABLES
    csv,          \* content of INPUT_CSV as pd.read_csv returns it (line 71)
    refined,      \* csv filtered by HEAVY_IDS (line 72)
    idx,          \* position of the `for _, r in refined.iterrows()` loop
    rows,         \* the accumulated batch `rows` (line 77)
    failed,       \* history: positions of refined whose fetch or normalization
                  \* raised into the handler of lines 110-111 during this run
    df,           \* the sorted DataFrame (lines 114-119)
    data,         \* what the report source holds during this run
    start_d,      \* start_date (line 26)
    end_d,        \* end_date (line 25)
    base_span,    \* argument base_span of fetch_chunked
    span,         \* local `span` of fetch_chunked
    cur,          \* local `cur` of the running iter_chunks generator
    attempt,      \* number of shrink-restarts of the running session
    issued,       \* chunks yielded by iter_chunks in the running attempt
    consumed,     \* responses the caller consumed in the running attempt
    aborted,      \* history: the attempts of the running session that were
                  \* restarted after the caller had consumed a response of theirs
    req,          \* the request in flight / last issued (dateRanges of body)
    resp,         \* the response yielded to the caller, not yet consumed
    outcome,      \* outcome of the last runReport call of the session
    err,          \* the exception propagating out of the try block
    stage,        \* content of STAGE_TABLE
    target,       \* content of TARGET_TABLE
    now,          \* the sink's clock (CURRENT_TIMESTAMP)
    committed,    \* history: the staged batch of every MERGE that committed
    run,          \* how many times the batch job has been started
    pc,           \* position of the program
    exit_status   \* exit status of the process once it has ended

vars == <<csv, refined, idx, rows, failed, df, data, start_d, end_d, base_span, span,
          cur, attempt, issued, consumed, aborted, req, resp, outcome, err, stage,
          target, now, committed, run, pc, exit_status>>

sessionVars == <<span, cur, attempt, issued, consumed, aborted, req, resp, outcome, err>>
sinkVars    == <<stage, target, now, committed>>
inputVars   == <<csv, data, start_d, end_d, base_span, run>>

----------------------------------------------------------------------------
(* Program constants *)

\* the floor span: the literal 31 of `if span <= 31` / `max(31, span // 2)`
MIN_SPAN == 31
\* the default of base_span, also passed at the call site
DEFAULT_SPAN == 210
\* HEAVY_IDS = {"410236109"}
HEAVY_IDS == {"410236109"}

(* Bounds of the model *)
MaxEntities == 2      \* rows of the input CSV
MaxRerunEntities == 1 \* rows of the input CSV of a job that is run again
MaxRuns     == 2      \* runs of the batch job against the same target table
MaxDataRows == 2      \* rows the report source holds for the window
MaxDay      == 6      \* last day of the windows given to iter_chunks alone
MaxSpanDays == 4      \* largest span_days given to iter_chunks alone

Min(a, b) == IF a <= b THEN a ELSE b
Max(a, b) == IF a >= b THEN a ELSE b

----------------------------------------------------------------------------
(* Calendar: date arithmetic, strftime / strptime over the years the      *)
(* 50-month window of a run in early 2024 reaches                          *)

\* start_date goes back relativedelta(months=50) from end_date
BACKDATE_MONTHS == 50

Years == 2019..2024

IsLeap(y) == y % 4 = 0 /\ (y % 100 # 0 \/ y % 400 = 0)
YearLen(y) == IF IsLeap(y) THEN 366 ELSE 365

MonthLen(y, m) == IF m = 2 THEN (IF IsLeap(y) THEN 29 ELSE 28)
                  ELSE IF m \in {4, 6, 9, 11} THEN 30 ELSE 31

\* ordinal of the last day before year y
RECURSIVE YearOffset(_)
YearOffset(y) == IF y = 2024 THEN 0
                 ELSE IF y < 2024 THEN YearOffset(y + 1) - YearLen(y)
                 ELSE YearOffset(y - 1) + YearLen(y - 1)

RECURSIVE DaysBefore(_, _)
DaysBefore(y, m) == IF m <= 1 THEN 0 ELSE DaysBefore(y, m - 1) + MonthLen(y, m - 1)

\* ordinal of the last day before month m of year y, tabulated
FirstOfMonth == [y \in Years |-> [m \in 1..12 |-> YearOffset(y) + DaysBefore(y, m)]]

\* the days of the calendar
Days == (FirstOfMonth[2019][1] + 1)..(FirstOfMonth[2024][12] + 31)

YearOf(d) == CHOOSE y \in Years :
                 FirstOfMonth[y][1] < d /\ d <= FirstOfMonth[y][1] + YearLen(y)

MonthOf(d) == CHOOSE m \in 1..12 :
                 /\ FirstOfMonth[YearOf(d)][m] < d
                 /\ d <= FirstOfMonth[YearOf(d)][m] + MonthLen(YearOf(d), m)

\* the year, month and day fields of every date, tabulated
DateFields == [d \in Days |->
                  [y |-> YearOf(d), m |-> MonthOf(d),
                   d |-> d - FirstOfMonth[YearOf(d)][MonthOf(d)]]]

\* s.strftime("%Y-%m-%d"): the year, month and day fields of a date
Strftime(d) == DateFields[d]

\* whether datetime.strptime(raw, "%Y%m%d") accepts the text
ValidDate(raw) == /\ raw.m \in 1..12
                  /\ raw.d >= 1
                  /\ raw.d <= MonthLen(raw.y, raw.m)

\* datetime.strptime(raw, "%Y%m%d").date()
Strptime(raw) == FirstOfMonth[raw.y][raw.m] + raw.d

\* d - relativedelta(months=n): n months back, the day of the month clipped
\* to the length of the month arrived at
MinusMonths(d, n) ==
    LET f  == Strftime(d)
        t  == f.y * 12 + (f.m - 1) - n
        y2 == t \div 12
        m2 == (t % 12) + 1
    IN  Strptime([y |-> y2, m |-> m2, d |-> Min(f.d, MonthLen(y2, m2))])

\* end_date = datetime.today().date() - timedelta(days=1)
EndDate(today) == today - 1
\* start_date = (end_date - relativedelta(months=50)) + timedelta(days=1)
StartDate(today) == MinusMonths(EndDate(today), BACKDATE_MONTHS) + 1

\* order of two formatted dates, as the report source compares them
DateLeq(a, b) == \/ a.y < b.y
                 \/ a.y = b.y /\ a.m < b.m
                 \/ a.y = b.y /\ a.m = b.m /\ a.d <= b.d

----------------------------------------------------------------------------
(* iter_chunks *)

\* min(end_d, cur + step) with step = timedelta(days=span_days - 1)
ChunkEnd_noinclusive(c, e, span_days) == Min(e, c + span_days)
ChunkEnd(c, e, span_days) == Min(e, c + (span_days - 1))

\* cur = chunk_end + timedelta(days=1)
NextCur_skip(chunk_end) == chunk_end + 2
NextCur(chunk_end) == chunk_end + 1

\* the whole sequence the generator yields
RECURSIVE IterChunks(_, _, _)
IterChunks(c, e, span_days) ==
    IF c <= e
    THEN <<[s |-> c, e |-> ChunkEnd(c, e, span_days)]>>
         \o IterChunks(NextCur(ChunkEnd(c, e, span_days)), e, span_days)
    ELSE <<>>

----------------------------------------------------------------------------
(* Inputs: the CSV of properties and the data of the report source *)

PropertyIds == {"123", "410236109"}
\* the token_file cell of a CSV row: empty (read as NaN), the path of no
\* file, the path of a file that is no authorized-user file, a usable file
Tokens      == {"blank", "missing", "unreadable", "ok"}

\* what pd.read_csv can return: row i carries the non-key attributes of the
\* property (property_name, account_id, account_name, user, token_file),
\* which the model sums up as user = i
CsvFiles == {c \in UNION {[1..n -> [property_id : PropertyIds, user : 1..MaxEntities, token : Tokens]]
                              : n \in 0..MaxEntities}
               : \A i \in 1..Len(c) : c[i].user = i}

\* the CSV files given to the job that is run more than once
RerunCsvFiles == {c \in CsvFiles : Len(c) <= MaxRerunEntities}

\* refined[refined["property_id"].astype(str).isin(HEAVY_IDS)]
IsHeavy(r) == r.property_id \in HEAVY_IDS
FilterHeavy(c) == SelectSeq(c, IsHeavy)

\* order of strings, for the values the model uses
StrRank(s) == CASE s = ""             -> 0
                [] s = "(unassigned)" -> 1
                [] s = "123"          -> 2
                [] s = "410236109"    -> 3
                [] s = "Direct"       -> 4

\* one row of a runReport response: dimensionValues[0] (date, YYYYMMDD),
\* dimensionValues[1] (channel), metricValues[0] (sessions); complete is
\* FALSE for a row that lacks one of these fields
RawRow(d, c, v, k) == [raw_date |-> Strftime(d), ch |-> c, sessions |-> v, complete |-> k]

RowUniverse == { RawRow(1, "Direct", 5, TRUE), RawRow(1, "Direct", 9, TRUE),
                 RawRow(1, "", 5, TRUE),
                 RawRow(40, "Direct", 5, TRUE), RawRow(40, "Direct", 0, FALSE) }

RawKeyLess(a, b) ==
    \/ Strptime(a.raw_date) < Strptime(b.raw_date)
    \/ a.raw_date = b.raw_date /\ StrRank(a.ch) < StrRank(b.ch)

\* the report source groups by (date, channel): one row per pair
Datasets == {q \in UNION {[1..n -> RowUniverse] : n \in 0..MaxDataRows}
               : \A i \in 1..(Len(q) - 1) : RawKeyLess(q[i], q[i + 1])}

\* the days on which the job is run: datetime.today()
Todays == { Strptime([y |-> 2024, m |-> 2, d |-> 23]) }

\* the windows [start_date, end_date] the job computes on those days
Windows == { [s |-> StartDate(t), e |-> EndDate(t)] : t \in Todays }

\* the arguments fetch_chunked is given when it is exercised on its own
FetchWindows  == { [s |-> 1, e |-> 10], [s |-> 1, e |-> 53], [s |-> 3, e |-> 64], [s |-> 1, e |-> 250] }
\* values of the parameter base_span (line 39) below, at and above the floor,
\* for the statements made about any base_span; the script itself passes 210
SpanArguments == { 20, 31, 62, DEFAULT_SPAN }
FetchDatasets == { <<>>, <<RawRow(1, "Direct", 5, TRUE)>>,
                   <<RawRow(1, "Direct", 5, TRUE), RawRow(40, "Direct", 0, FALSE)>> }

\* the body of a request: {"dateRanges": [{"startDate": ..., "endDate": ...}]}
Body(s, e) == [startDate |-> Strftime(s), endDate |-> Strftime(e)]

\* the rows the report source returns for a request
RECURSIVE ReportRows(_, _)
ReportRows(d, body) ==
    IF d = <<>> THEN <<>>
    ELSE (IF DateLeq(body.startDate, Head(d).raw_date) /\ DateLeq(Head(d).raw_date, body.endDate)
          THEN <<Head(d)>> ELSE <<>>) \o ReportRows(Tail(d), body)

----------------------------------------------------------------------------
(* Normalization of a response (lines 92-108) *)

\* rr["dimensionValues"][1]["value"] or "(unassigned)"
Channel(c) == IF c = "" THEN "(unassigned)" ELSE c

\* whether the loop body raises on this response row (KeyError, ValueError)
Raises(rr) == ~rr.complete \/ ~ValidDate(rr.raw_date)

\* the dict appended to rows for one response row
ReportRow(r, rr) == [property_id |-> r.property_id,
                     user        |-> r.user,
                     date        |-> Strptime(rr.raw_date),
                     ch          |-> Channel(rr.ch),
                     sessions    |-> rr.sessions]

\* the rows appended for a response, up to the first row the body raises on
RECURSIVE Normalized(_, _)
Normalized(r, rs) ==
    IF rs = <<>> \/ Raises(Head(rs)) THEN <<>>
    ELSE <<ReportRow(r, Head(rs))>> \o Normalized(r, Tail(rs))

NormalizeRaises(rs) == \E i \in 1..Len(rs) : Raises(rs[i])

----------------------------------------------------------------------------
(* df.sort_values(["property_id", "date", "sessionDefaultChannelGroup"]) *)

KeyOf(r) == <<r.property_id, r.date, r.ch>>

KeyLess(a, b) ==
    \/ StrRank(a.property_id) < StrRank(b.property_id)
    \/ a.property_id = b.property_id /\ a.date < b.date
    \/ a.property_id = b.property_id /\ a.date = b.date /\ StrRank(a.ch) < StrRank(b.ch)

\* r placed behind every row of the sorted q whose key is not greater
RECURSIVE InsertSorted(_, _)
InsertSorted(q, r) ==
    IF q = <<>> THEN <<r>>
    ELSE IF KeyLess(r, Head(q)) THEN <<r>> \o q
    ELSE <<Head(q)>> \o InsertSorted(Tail(q), r)

RECURSIVE SortValues(_)
SortValues(q) ==
    IF q = <<>> THEN <<>>
    ELSE InsertSorted(SortValues(SubSeq(q, 1, Len(q) - 1)), q[Len(q)])

----------------------------------------------------------------------------
(* merge_sql *)

\* the source rows a target row joins with (the ON clause)
Matches(t, S) == {i \in 1..Len(S) : KeyOf(S[i]) = KeyOf(t)}

\* the values a MATCHED update or a NOT MATCHED insert writes
TargetRow(s, ts) == [property_id |-> s.property_id, user |-> s.user, date |-> s.date,
                     ch |-> s.ch, sessions |-> s.sessions, ingested_at |-> ts]

\* MERGE fails when a target row matches more than one source row
MergeRejected(T, S) == \E j \in 1..Len(T) : Cardinality(Matches(T[j], S)) > 1

\* WHEN MATCHED THEN UPDATE
MergeUpdate_stampall(T, S, ts) ==
    [j \in 1..Len(T) |->
        IF Matches(T[j], S) = {} THEN [T[j] EXCEPT !.ingested_at = ts]
        ELSE TargetRow(S[CHOOSE i \in Matches(T[j], S) : TRUE], ts)]
MergeUpdate(T, S, ts) ==
    [j \in 1..Len(T) |->
        IF Matches(T[j], S) = {} THEN T[j]
        ELSE TargetRow(S[CHOOSE i \in Matches(T[j], S) : TRUE], ts)]

\* WHEN NOT MATCHED THEN INSERT: every source row that joins with no target row
MergeInsert_always(T, S, ts) == [i \in 1..Len(S) |-> TargetRow(S[i], ts)]
RECURSIVE MergeInsert(_, _, _)
MergeInsert(T, S, ts) ==
    IF S = <<>> THEN <<>>
    ELSE (IF \E j \in 1..Len(T) : KeyOf(T[j]) = KeyOf(Head(S))
          THEN <<>> ELSE <<TargetRow(Head(S), ts)>>) \o MergeInsert(T, Tail(S), ts)

Merged(T, S, ts) == MergeUpdate(T, S, ts) \o MergeInsert(T, S, ts)

----------------------------------------------------------------------------
(* The batch job *)

Terminal == {"no_profiles", "no_data", "crashed", "sink_failed", "done"}
InSession == pc \in {"fetch", "yielded"}

\* the locals of fetch_chunked and of the try block when no session runs
SessionIdle ==
    /\ span = 0 /\ cur = 0 /\ attempt = 0
    /\ issued = <<>> /\ consumed = <<>> /\ aborted = {} /\ req = <<>> /\ resp = <<>>
    /\ outcome = "none" /\ err = "none"

SessionReset ==
    /\ span' = 0 /\ cur' = 0 /\ attempt' = 0
    /\ issued' = <<>> /\ consumed' = <<>> /\ aborted' = {} /\ req' = <<>> /\ resp' = <<>>
    /\ outcome' = "none" /\ err' = "none"

\* a fresh process: module level up to line 28, before the CSV is read
StartOfRun ==
    /\ refined = <<>> /\ idx = 0 /\ rows = <<>> /\ failed = {} /\ df = <<>>
    /\ SessionIdle
    /\ pc = "load" /\ exit_status = 0

Init ==
    /\ StartOfRun
    /\ run = 1
    /\ stage = <<>> /\ target = <<>> /\ now = 0 /\ committed = <<>>
    /\ csv \in RerunCsvFiles
    /\ data \in Datasets
    /\ \E w \in Windows : start_d = w.s /\ end_d = w.e
    /\ base_span = DEFAULT_SPAN

\* lines 71-74, a CSV with a heavy property: on to the fetch loop
LoadProperties ==
    /\ pc = "load"
    /\ FilterHeavy(csv) # <<>>
    /\ refined' = FilterHeavy(csv)
    /\ idx' = 1
    /\ rows' = <<>>
    /\ pc' = "loop"
    /\ UNCHANGED <<failed, df, exit_status, sessionVars, sinkVars, inputVars>>

\* lines 71-74, refined.empty: raise SystemExit("No heavy profiles ...")
LoadExit ==
    /\ pc = "load"
    /\ FilterHeavy(csv) = <<>>
    /\ pc' = "no_profiles"
    /\ exit_status' = 1
    /\ UNCHANGED <<refined, failed, idx, rows, df, sessionVars, sinkVars, inputVars>>

\* lines 82-84: token missing, skip the property
SkipEntity ==
    /\ pc = "loop"
    /\ idx <= Len(refined)
    /\ refined[idx].token = "missing"
    /\ idx' = idx + 1
    /\ UNCHANGED <<refined, failed, rows, df, pc, exit_status, sessionVars, sinkVars, inputVars>>

\* line 82 on an empty token_file cell: `not nan` is False and
\* os.path.exists(nan) raises TypeError outside the try block
TokenCrash ==
    /\ pc = "loop"
    /\ idx <= Len(refined)
    /\ refined[idx].token = "blank"
    /\ pc' = "crashed"
    /\ exit_status' = 1
    /\ UNCHANGED <<refined, failed, idx, rows, df, sessionVars, sinkVars, inputVars>>

\* line 88 raises inside the try block: the token file cannot be used
CredentialError ==
    /\ pc = "loop"
    /\ idx <= Len(refined)
    /\ refined[idx].token = "unreadable"
    /\ err' = "credential"
    /\ pc' = "except"
    /\ UNCHANGED <<refined, failed, idx, rows, df, exit_status, span, cur, attempt, issued,
                   consumed, aborted, req, resp, outcome, sinkVars, inputVars>>

\* lines 88-91 and 40, 43, 32: the session starts, the generator is at its head
BeginFetch ==
    /\ pc = "loop"
    /\ idx <= Len(refined)
    /\ refined[idx].token = "ok"
    /\ span' = base_span
    /\ cur' = start_d
    /\ attempt' = 0
    /\ issued' = <<>>
    /\ consumed' = <<>>
    /\ aborted' = {}
    /\ pc' = "fetch"
    /\ UNCHANGED <<refined, failed, idx, rows, df, exit_status, req, resp, outcome, err,
                   sinkVars, inputVars>>

\* the chunk iter_chunks yields at cur (lines 34-36)
ThisChunk == [s |-> cur, e |-> ChunkEnd(cur, end_d, span), span |-> span, attempt |-> attempt]

\* lines 43-58: the request of the next chunk succeeds, its response is yielded
RunReportOk ==
    /\ pc = "fetch"
    /\ cur <= end_d
    /\ issued' = Append(issued, ThisChunk)
    /\ req' = <<Body(ThisChunk.s, ThisChunk.e)>>
    /\ resp' = ReportRows(data, Body(ThisChunk.s, ThisChunk.e))
    /\ outcome' = "ok"
    /\ pc' = "yielded"
    /\ UNCHANGED <<refined, failed, idx, rows, df, exit_status, span, cur, attempt, consumed,
                   aborted, err, sinkVars, inputVars>>

\* span = max(31, span // 2)
Shrunk_nofloor(sp) == sp \div 2
Shrunk_lowfloor(sp) == Max(MIN_SPAN - 1, sp \div 2)
Shrunk_nohalve(sp) == Max(MIN_SPAN, sp)
Shrunk(sp) == Max(MIN_SPAN, sp \div 2)

\* whether a size-limit failure at this span is fatal: if span <= 31: raise
AtFloor_strict(sp) == sp < MIN_SPAN
AtFloor(sp) == sp <= MIN_SPAN

\* a variant that goes on from the chunk that failed instead of restarting
RunReportTooLarge_resume ==
    /\ pc = "fetch"
    /\ cur <= end_d
    /\ req' = <<Body(ThisChunk.s, ThisChunk.e)>>
    /\ outcome' = "size"
    /\ IF AtFloor(span)
       THEN /\ err' = "size"
            /\ pc' = "except"
            /\ issued' = Append(issued, ThisChunk)
            /\ UNCHANGED <<span, cur, attempt>>
       ELSE /\ span' = Shrunk(span)
            /\ attempt' = attempt + 1
            /\ UNCHANGED <<cur, issued, err, pc>>
    /\ UNCHANGED <<refined, failed, idx, rows, df, exit_status, consumed, aborted, resp,
                   sinkVars, inputVars>>

\* lines 54-57 raise HttpError "exceeds limit" / "too_large"; lines 60-66
RunReportTooLarge ==
    /\ pc = "fetch"
    /\ cur <= end_d
    /\ req' = <<Body(ThisChunk.s, ThisChunk.e)>>
    /\ outcome' = "size"
    /\ IF AtFloor(span)
       THEN /\ err' = "size"
            /\ pc' = "except"
            /\ issued' = Append(issued, ThisChunk)
            /\ UNCHANGED <<span, cur, attempt, consumed, aborted>>
       ELSE /\ span' = Shrunk(span)
            /\ attempt' = attempt + 1
            /\ cur' = start_d
            /\ issued' = <<>>
            /\ consumed' = <<>>
            /\ aborted' = (IF consumed = <<>> THEN aborted ELSE aborted \cup {attempt})
            /\ UNCHANGED <<err, pc>>
    /\ UNCHANGED <<refined, failed, idx, rows, df, exit_status, resp, sinkVars, inputVars>>

\* a variant that takes every HttpError for a size-limit failure
RunReportError_retry ==
    /\ pc = "fetch"
    /\ cur <= end_d
    /\ req' = <<Body(ThisChunk.s, ThisChunk.e)>>
    /\ outcome' = "other"
    /\ IF AtFloor(span)
       THEN /\ err' = "other"
            /\ pc' = "except"
            /\ issued' = Append(issued, ThisChunk)
            /\ UNCHANGED <<span, cur, attempt, consumed, aborted>>
       ELSE /\ span' = Shrunk(span)
            /\ attempt' = attempt + 1
            /\ cur' = start_d
            /\ issued' = <<>>
            /\ consumed' = <<>>
            /\ aborted' = (IF consumed = <<>> THEN aborted ELSE aborted \cup {attempt})
            /\ UNCHANGED <<err, pc>>
    /\ UNCHANGED <<refined, failed, idx, rows, df, exit_status, resp, sinkVars, inputVars>>

\* lines 54-57 raise any other error; lines 67-68 re-raise it
RunReportError ==
    /\ pc = "fetch"
    /\ cur <= end_d
    /\ issued' = Append(issued, ThisChunk)
    /\ req' = <<Body(ThisChunk.s, ThisChunk.e)>>
    /\ outcome' = "other"
    /\ err' = "other"
    /\ pc' = "except"
    /\ UNCHANGED <<refined, failed, idx, rows, df, exit_status, span, cur, attempt, consumed,
                   aborted, resp, sinkVars, inputVars>>

\* lines 92-108 on the yielded response, then the generator resumes (line 37)
Consume ==
    /\ pc = "yielded"
    /\ rows' = rows \o Normalized(refined[idx], resp)
    /\ resp' = <<>>
    /\ IF NormalizeRaises(resp)
       THEN /\ err' = "malformed"
            /\ pc' = "except"
            /\ UNCHANGED <<cur, consumed>>
       ELSE /\ consumed' = Append(consumed, issued[Len(issued)])
            /\ cur' = NextCur(issued[Len(issued)].e)
            /\ pc' = "fetch"
            /\ UNCHANGED err
    /\ UNCHANGED <<refined, failed, idx, df, exit_status, span, attempt, issued, aborted, req,
                   outcome, sinkVars, inputVars>>

\* line 34 false, line 59: the generator returns, the for loop of line 91 ends
FetchDone ==
    /\ pc = "fetch"
    /\ cur > end_d
    /\ idx' = idx + 1
    /\ pc' = "loop"
    /\ SessionReset
    /\ UNCHANGED <<refined, failed, rows, df, exit_status, sinkVars, inputVars>>

\* the exceptions of the try block that come from fetching (fetch_chunked,
\* line 91) or normalizing (lines 92-108), not from loading the credential
FetchErrors == {"size", "other", "malformed"}

\* a variant that drops the rows of the property that failed
HandleError_rollback ==
    /\ pc = "except"
    /\ idx' = idx + 1
    /\ pc' = "loop"
    /\ SessionReset
    /\ failed' = (IF err \in FetchErrors THEN failed \cup {idx} ELSE failed)
    /\ LET Others(r) == r.user # refined[idx].user IN rows' = SelectSeq(rows, Others)
    /\ UNCHANGED <<refined, df, exit_status, sinkVars, inputVars>>

\* lines 110-111: the error is printed, the loop goes on with the next property
HandleError ==
    /\ pc = "except"
    /\ idx' = idx + 1
    /\ pc' = "loop"
    /\ SessionReset
    /\ failed' = (IF err \in FetchErrors THEN failed \cup {idx} ELSE failed)
    /\ UNCHANGED <<refined, rows, df, exit_status, sinkVars, inputVars>>

\* line 78: no property is left
LoopDone ==
    /\ pc = "loop"
    /\ idx > Len(refined)
    /\ pc' = "dataframe"
    /\ UNCHANGED <<refined, failed, idx, rows, df, exit_status, sessionVars, sinkVars, inputVars>>

\* a variant that ends with a failure status when nothing was fetched
DataFrame_exit1 ==
    /\ pc = "dataframe"
    /\ IF rows = <<>>
       THEN /\ pc' = "no_data"
            /\ exit_status' = 1
            /\ UNCHANGED df
       ELSE /\ df' = SortValues(rows)
            /\ pc' = "stage"
            /\ UNCHANGED exit_status
    /\ UNCHANGED <<refined, failed, idx, rows, sessionVars, sinkVars, inputVars>>

\* lines 114-119
DataFrame ==
    /\ pc = "dataframe"
    /\ IF rows = <<>>
       THEN /\ pc' = "no_data"
            /\ exit_status' = 0
            /\ UNCHANGED df
       ELSE /\ df' = SortValues(rows)
            /\ pc' = "stage"
            /\ UNCHANGED exit_status
    /\ UNCHANGED <<refined, failed, idx, rows, sessionVars, sinkVars, inputVars>>

\* a variant that loads with WRITE_APPEND
StageLoad_append ==
    /\ pc = "stage"
    /\ stage' = stage \o df
    /\ pc' = "merge"
    /\ UNCHANGED <<refined, failed, idx, rows, df, exit_status, sessionVars, target, now,
                   committed, inputVars>>

\* lines 128-130: WRITE_TRUNCATE load of df into the stage table
StageLoad ==
    /\ pc = "stage"
    /\ stage' = df
    /\ pc' = "merge"
    /\ UNCHANGED <<refined, failed, idx, rows, df, exit_status, sessionVars, target, now,
                   committed, inputVars>>

\* lines 122-130 raise: the sink cannot be reached or the load job fails
StageFail ==
    /\ pc = "stage"
    /\ pc' = "sink_failed"
    /\ exit_status' = 1
    /\ UNCHANGED <<refined, failed, idx, rows, df, sessionVars, sinkVars, inputVars>>

\* lines 132-156: the MERGE statement commits
MergeCommit ==
    /\ pc = "merge"
    /\ ~MergeRejected(target, stage)
    /\ now' = now + 1
    /\ target' = Merged(target, stage, now + 1)
    /\ committed' = Append(committed, stage)
    /\ pc' = "done"
    /\ exit_status' = 0
    /\ UNCHANGED <<refined, failed, idx, rows, df, sessionVars, stage, inputVars>>

\* a variant in which a failing MERGE leaves its updates behind
MergeFail_partial ==
    /\ pc = "merge"
    /\ target' = MergeUpdate(target, stage, now + 1)
    /\ pc' = "sink_failed"
    /\ exit_status' = 1
    /\ UNCHANGED <<refined, failed, idx, rows, df, sessionVars, stage, now, committed, inputVars>>

\* line 153 raises: the statement is rejected or the sink fails; nothing is written
MergeFail ==
    /\ pc = "merge"
    /\ pc' = "sink_failed"
    /\ exit_status' = 1
    /\ UNCHANGED <<refined, failed, idx, rows, df, sessionVars, sinkVars, inputVars>>

\* the job is started again later, against the same tables
NewRun ==
    /\ pc \in Terminal
    /\ run < MaxRuns
    /\ run' = run + 1
    /\ refined' = <<>> /\ idx' = 0 /\ rows' = <<>> /\ failed' = {} /\ df' = <<>>
    /\ pc' = "load" /\ exit_status' = 0
    /\ csv' \in RerunCsvFiles
    /\ data' \in Datasets
    /\ \E w \in Windows : start_d' = w.s /\ end_d' = w.e
    /\ UNCHANGED <<base_span, sessionVars, sinkVars>>

RunStep ==
    \/ LoadProperties \/ LoadExit
    \/ SkipEntity \/ TokenCrash \/ CredentialError \/ BeginFetch
    \/ RunReportOk \/ RunReportTooLarge \/ RunReportError
    \/ Consume \/ FetchDone \/ HandleError \/ LoopDone
    \/ DataFrame \/ StageLoad \/ StageFail \/ MergeCommit \/ MergeFail

Next == RunStep \/ NewRun

Spec == Init /\ [][Next]_vars

\* one run of the job, fetch_chunked given any window at the base_span the
\* script passes
FetchInit ==
    /\ StartOfRun
    /\ run = 1
    /\ stage = <<>> /\ target = <<>> /\ now = 0 /\ committed = <<>>
    /\ csv \in CsvFiles
    /\ data \in FetchDatasets
    /\ \E w \in FetchWindows : start_d = w.s /\ end_d = w.e
    /\ base_span = DEFAULT_SPAN

FetchSpec == FetchInit /\ [][RunStep]_vars

\* one run of the job, fetch_chunked given any window and any base_span
ArgInit ==
    /\ StartOfRun
    /\ run = 1
    /\ stage = <<>> /\ target = <<>> /\ now = 0 /\ committed = <<>>
    /\ csv \in CsvFiles
    /\ data \in FetchDatasets
    /\ \E w \in FetchWindows : start_d = w.s /\ end_d = w.e
    /\ base_span \in SpanArguments

ArgSpec == ArgInit /\ [][RunStep]_vars

\* the steps of a running session
SessionStep == RunReportOk \/ RunReportTooLarge \/ RunReportError \/ Consume \/ FetchDone

\* the interpreter goes on with a running session: every runReport call
\* returns or raises, and the caller resumes the generator after each response
FairFetchSpec == FetchInit /\ [][RunStep]_vars /\ WF_vars(SessionStep)

----------------------------------------------------------------------------
(* iter_chunks on its own: the generator is driven to its end *)

ChunkInit ==
    /\ refined = <<>> /\ idx = 0 /\ rows = <<>> /\ failed = {} /\ df = <<>>
    /\ csv = <<>> /\ data = <<>> /\ run = 1
    /\ stage = <<>> /\ target = <<>> /\ now = 0 /\ committed = <<>>
    /\ attempt = 0 /\ issued = <<>> /\ consumed = <<>> /\ aborted = {}
    /\ req = <<>> /\ resp = <<>>
    /\ outcome = "none" /\ err = "none" /\ exit_status = 0
    /\ start_d \in 1..MaxDay
    /\ end_d \in start_d..MaxDay
    /\ span \in 1..MaxSpanDays
    /\ base_span = span
    /\ cur = start_d
    /\ pc = "iter"

\* lines 34-36: one more chunk is yielded, the generator is suspended
IterYield ==
    /\ pc = "iter"
    /\ cur <= end_d
    /\ issued' = Append(issued, ThisChunk)
    /\ pc' = "iter_yielded"
    /\ UNCHANGED <<refined, failed, idx, rows, df, exit_status, span, cur, attempt, consumed,
                   aborted, req, resp, outcome, err, sinkVars, inputVars>>

\* line 37: the consumer asks for the next chunk, the generator resumes
IterResume ==
    /\ pc = "iter_yielded"
    /\ cur' = NextCur(issued[Len(issued)].e)
    /\ pc' = "iter"
    /\ UNCHANGED <<refined, failed, idx, rows, df, exit_status, span, attempt, issued, consumed,
                   aborted, req, resp, outcome, err, sinkVars, inputVars>>

\* line 34 false: the generator is exhausted
IterStop ==
    /\ pc = "iter"
    /\ cur > end_d
    /\ pc' = "iter_done"
    /\ UNCHANGED <<refined, failed, idx, rows, df, exit_status, sessionVars, sinkVars, inputVars>>

ChunkNext == IterYield \/ IterResume \/ IterStop

ChunkSpec == ChunkInit /\ [][ChunkNext]_vars

----------------------------------------------------------------------------
(* Properties *)

Width(c) == c.e - c.s + 1

\* C1: for start <= end and span_days >= 1, iter_chunks yields a finite
\* sequence of inclusive ranges that partitions [start, end]: the first range
\* starts at start, each range's end + 1 is the next range's start, every range
\* covers at most span_days days and only the last may cover fewer, and the
\* last range ends at end.
C1_ChunksPartitionWindow ==
    pc \in {"iter", "iter_yielded", "iter_done"} =>
        /\ Len(issued) <= end_d - start_d + 1
        /\ issued # <<>> => issued[1].s = start_d
        /\ \A i \in 1..Len(issued) :
              /\ issued[i].s <= issued[i].e
              /\ issued[i].e <= end_d
              /\ Width(issued[i]) <= span
        /\ \A i \in 1..(Len(issued) - 1) :
              /\ issued[i].e + 1 = issued[i + 1].s
              /\ Width(issued[i]) = span
        /\ pc = "iter_done" =>
              /\ issued # <<>>
              /\ issued[Len(issued)].e = end_d
              /\ [i \in 1..Len(issued) |-> [s |-> issued[i].s, e |-> issued[i].e]]
                    = IterChunks(start_d, end_d, span)

C1_Witness ==
    /\ pc = "iter_done"
    /\ Len(issued) >= 3
    /\ Width(issued[Len(issued)]) < span

\* a step of fetch_chunked that issues a request
IssuesRequest == pc = "fetch" /\ pc' # "loop"
\* a step in which the request fails with a size-limit error
SizeFailure == pc = "fetch" /\ outcome' = "size"
\* a step in which the request fails with another error
OtherFailure == pc = "fetch" /\ outcome' = "other"

\* C2: when a request fails with a size-limit error while span > MIN_SPAN,
\* the span becomes max(MIN_SPAN, span // 2), the generator is restarted at
\* the original start date, and the very next request is for the chunk
\* that begins at start_d, computed at the new span.
C2_RestartsWholeWindow ==
    [][ /\ (SizeFailure /\ span > MIN_SPAN) =>
              /\ pc' = "fetch"
              /\ span' = Max(MIN_SPAN, span \div 2)
              /\ span' < span
              /\ cur' = start_d
              /\ issued' = <<>>
        /\ (IssuesRequest /\ outcome = "size") =>
              /\ cur = start_d
              /\ req' = <<Body(start_d, Min(end_d, start_d + span - 1))>>
      ]_vars

\* a request was issued after a restart whose failed request was not the first
\* of its attempt
C2_Witness ==
    /\ pc = "yielded"
    /\ attempt >= 1
    /\ Len(issued) = 1
    /\ issued[1].s = start_d
    /\ req = <<Body(start_d, Min(end_d, start_d + span - 1))>>
    /\ (attempt - 1) \in aborted

\* C3: the responses that reach the consumer are only those of the final,
\* completed attempt: what an aborted attempt delivered is discarded.
C3_OnlyFinalAttemptConsumed ==
    (pc = "fetch" /\ cur > end_d) =>
        /\ aborted = {}
        /\ \A i \in 1..Len(consumed) : consumed[i].attempt = attempt

\* C4 as stated: in every state of a fetch session, whatever base_span was
\* passed, the span is at least MIN_SPAN.
C4_SpanAtLeastMin == InSession => span >= MIN_SPAN

\* C4 as amended: in every state of a fetch session the span is at least the
\* smaller of MIN_SPAN and base_span, and so is the span of every request
\* issued; hence with a base_span of at least MIN_SPAN, as the 210 the script
\* passes, no request is issued below MIN_SPAN. base_span itself is not
\* raised to the floor.
C4_SpanAtLeastFloorOrBase ==
    InSession =>
        /\ span >= Min(MIN_SPAN, base_span)
        /\ base_span >= MIN_SPAN => span >= MIN_SPAN
        /\ \A i \in 1..Len(issued) :
              /\ issued[i].span >= Min(MIN_SPAN, base_span)
              /\ base_span >= MIN_SPAN => issued[i].span >= MIN_SPAN

\* a request was issued at the floor after the span passed by the script had
\* been shrunk to it
C4_Witness ==
    /\ pc = "yielded"
    /\ base_span = DEFAULT_SPAN
    /\ span = MIN_SPAN
    /\ issued[Len(issued)].span = MIN_SPAN
    /\ Width(issued[Len(issued)]) = MIN_SPAN

\* C5: from span 210 the span after k halvings is max(31, 210 \div 2^k) (210,
\* 105, 52, 31); every non-fatal size failure strictly decreases the span; and
\* within a session nothing but a size-limit failure changes the span.
C5_SpanSequence ==
    /\ [](InSession /\ base_span = 210 =>
              /\ attempt \in 0..3
              /\ span = Max(31, 210 \div (2 ^ attempt))
              /\ span = <<210, 105, 52, 31>>[attempt + 1])
    /\ [][ /\ (SizeFailure /\ pc' # "except") => (span' < span /\ attempt' = attempt + 1)
           /\ (InSession /\ InSession' /\ span' # span) => SizeFailure
       ]_vars

C5_Witness == InSession /\ base_span = 210 /\ attempt = 3 /\ span = 31

\* C6: a size-limit failure while span <= MIN_SPAN ends the session with that
\* error: span unchanged, no restart, and the next thing done is the next
\* property; a size-limit failure is fatal only at span <= MIN_SPAN.
C6_SizeFailureAtFloorIsFatal ==
    /\ [](err = "size" => (pc = "except" /\ span <= MIN_SPAN))
    /\ [][ /\ (SizeFailure /\ span <= MIN_SPAN) =>
                 /\ pc' = "except" /\ err' = "size"
                 /\ span' = span /\ attempt' = attempt /\ cur' = cur
           /\ (SizeFailure /\ span > MIN_SPAN) => (pc' = "fetch" /\ err' = "none")
           /\ (pc = "except" /\ err = "size") =>
                 (pc' = "loop" /\ idx' = idx + 1 /\ SessionIdle')
       ]_vars

C6_Witness == pc = "except" /\ err = "size" /\ span = MIN_SPAN /\ attempt >= 1

\* C7: a failure that is not a size-limit error ends the session at once:
\* span unchanged, no restart, and the next thing done is the next property.
C7_OtherFailureIsFatal ==
    [][ /\ OtherFailure =>
              /\ pc' = "except" /\ err' = "other"
              /\ span' = span /\ attempt' = attempt /\ cur' = cur
        /\ (pc = "except" /\ err = "other") =>
              (pc' = "loop" /\ idx' = idx + 1 /\ SessionIdle')
      ]_vars

C7_Witness == pc = "except" /\ err = "other" /\ span > MIN_SPAN /\ Len(consumed) >= 1

\* C8: every fetch session ends, whatever the outcome of each request, after
\* at most 3 shrink-restarts from span 210.
C8_SessionTerminates ==
    /\ InSession ~> ~InSession
    /\ [](InSession /\ base_span = DEFAULT_SPAN => attempt <= 3)

C8_Witness == pc = "except" /\ err = "size" /\ base_span = DEFAULT_SPAN /\ attempt = 3

UniqueKeys(q) == \A i, j \in 1..Len(q) : KeyOf(q[i]) = KeyOf(q[j]) => i = j

\* C9: the target table holds at most one row per composite key (stated for
\* the first run over a CSV that names one heavy property).
C9_TargetKeysUnique ==
    (run = 1 /\ Len(refined) <= 1) => UniqueKeys(target)

\* C10: the batch handed to the sink holds at most one row per key (stated
\* for a CSV that names one heavy property).
C10_BatchKeysUnique ==
    (pc = "stage" /\ Len(refined) <= 1) => UniqueKeys(df)

\* a table without its ingestion timestamps
Strip(T) == [j \in 1..Len(T) |-> [T[j] EXCEPT !.ingested_at = 0]]

\* C11: committing a batch with unique keys twice in a row leaves the same
\* target content as committing it once, up to the ingestion timestamp: once a
\* commit is done, committing the same staged batch again changes no key and
\* no non-key value.
C11_MergeIdempotent ==
    /\ [](pc = "done" /\ UniqueKeys(stage) =>
              /\ ~MergeRejected(target, stage)
              /\ Strip(Merged(target, stage, now + 1)) = Strip(target))
    /\ [][ (/\ pc = "merge" /\ pc' = "done"
            /\ committed # <<>>
            /\ committed[Len(committed)] = stage
            /\ UniqueKeys(stage)) => Strip(target') = Strip(target)
       ]_vars

\* the run that has just committed staged the batch the run before committed
C11_Witness ==
    /\ pc = "done"
    /\ Len(committed) = 2
    /\ committed[1] = committed[2]
    /\ UniqueKeys(stage)
    /\ Len(stage) >= 2

\* C12: a commit leaves every target row whose key is absent from the staged
\* batch as it was (values and ingestion timestamp), no step removes a target
\* row or changes its key, and only a commit changes the target.
C12_MergeFrame ==
    [][ /\ target' # target => (pc = "merge" /\ pc' = "done")
        /\ Len(target') >= Len(target)
        /\ \A j \in 1..Len(target) :
              /\ KeyOf(target'[j]) = KeyOf(target[j])
              /\ Matches(target[j], stage) = {} => target'[j] = target[j]
      ]_vars

C12_Witness ==
    /\ pc = "done"
    /\ \E j \in 1..Len(target) :
          target[j].ingested_at < now /\ Matches(target[j], stage) = {}
    /\ \E j \in 1..Len(target) :
          target[j].ingested_at = now /\ Matches(target[j], stage) # {}

\* C13: after a commit, for every key of the batch the target holds exactly
\* one row with that key, carrying the batch row's non-key attributes (stated
\* for the first run over a CSV that names one heavy property).
C13_OneTargetRowPerBatchKey ==
    (pc = "done" /\ run = 1 /\ Len(refined) <= 1) =>
        \A i \in 1..Len(stage) :
            /\ Cardinality({j \in 1..Len(target) : KeyOf(target[j]) = KeyOf(stage[i])}) = 1
            /\ \A j \in 1..Len(target) :
                  KeyOf(target[j]) = KeyOf(stage[i]) => target[j] = TargetRow(stage[i], now)

\* C14: when the fetch of a property has failed, the run is not aborted: it
\* ends only after the loop has gone over every property after it, and with
\* rows accumulated it ends at the staging or merge step.
C14_FailureNeverAbortsRun ==
    (pc \in Terminal /\ failed # {}) =>
        /\ idx = Len(refined) + 1
        /\ rows # <<>> => pc \in {"sink_failed", "done"}

\* C15: when staging or the merge fails, the target is left exactly as it was
\* before the commit began and the run ends with a failure.
C15_SinkFailureLeavesTarget ==
    /\ [](pc = "sink_failed" => exit_status = 1)
    /\ [][ /\ (pc' = "sink_failed" /\ pc # "sink_failed") =>
                 /\ pc \in {"stage", "merge"}
                 /\ target' = target
                 /\ committed' = committed
           /\ (pc \in {"stage", "merge"} /\ pc' \notin {"merge", "done"}) =>
                 /\ pc' = "sink_failed"
                 /\ target' = target
           /\ pc = "sink_failed" => (pc' = "load" /\ target' = target)
       ]_vars

\* the merge of a later run failed on a target that holds rows
C15_Witness ==
    /\ pc = "sink_failed"
    /\ exit_status = 1
    /\ target # <<>>
    /\ stage = df
    /\ \E i \in 1..Len(stage) : \E j \in 1..Len(target) :
          /\ KeyOf(target[j]) = KeyOf(stage[i])
          /\ target[j].sessions # stage[i].sessions

\* C16 as stated: the job ends with a non-zero exit status only when no usable
\* property was found (stated for the runs that get past the token check of
\* every property).
C16_NonZeroOnlyWithoutProfiles ==
    (pc \in Terminal /\ pc # "crashed" /\ exit_status # 0) => pc = "no_profiles"

\* C16 as amended: the job ends with a non-zero exit status exactly when it
\* ends by SystemExit("No heavy profiles ...") or by an uncaught exception
\* (staging or merge failure, TypeError at the token check); it ends with
\* status 0 when no data was fetched and when the merge has committed,
\* whatever per-property failures the handler caught.
C16_ExitStatus ==
    /\ exit_status \in {0, 1}
    /\ pc \notin Terminal => exit_status = 0
    /\ pc \in Terminal => (exit_status = 0 <=> pc \in {"no_data", "done"})

\* the run ended with "No data fetched" after the fetch of a property failed
C16_Witness ==
    /\ pc = "no_data"
    /\ exit_status = 0
    /\ failed # {}

\* C17: after staging, the stage table is exactly the batch of the current
\* run, so the merge reads no row an earlier run staged.
C17_StageOverwritten ==
    /\ [](pc = "merge" =>
              /\ stage = df
              /\ stage = SortValues(rows)
              /\ Len(stage) = Len(rows)
              /\ \A i \in 1..Len(stage) : \E k \in 1..Len(rows) : rows[k] = stage[i])
    /\ [][ (pc = "stage" /\ pc' = "merge") => stage' = df ]_vars

\* a later run has staged a batch that lacks a row an earlier run staged
C17_Witness ==
    /\ pc = "merge"
    /\ run = 2
    /\ committed # <<>>
    /\ \E i \in 1..Len(committed[1]) :
          \A k \in 1..Len(stage) : stage[k] # committed[1][i]

\* C18: a property whose credential is missing or unreadable is passed over:
\* no request is issued for it, it adds no row, and the loop goes on.
C18_NoCredentialIsSkipped ==
    [][ (pc = "loop" /\ idx <= Len(refined) /\ refined[idx].token # "ok") =>
            /\ pc' \in {"loop", "except"}
            /\ rows' = rows
            /\ req' = req
            /\ exit_status' = exit_status
      ]_vars

\* C19: within an attempt the requests are issued in ascending date order,
\* each only after the response before it was consumed; when the session
\* completes, the requests of its last attempt cover every day of
\* [start_d, end_d] exactly once, all at the same span.
C19_SequentialOrderedRequests ==
    /\ [](InSession =>
              /\ \A i \in 1..(Len(issued) - 1) : issued[i].e < issued[i + 1].s
              /\ \A i \in 1..Len(issued) :
                    /\ issued[i].span = span
                    /\ issued[i].attempt = attempt
                    /\ start_d <= issued[i].s
                    /\ issued[i].e <= end_d
              /\ consumed = (IF pc = "yielded"
                                THEN SubSeq(issued, 1, Len(issued) - 1) ELSE issued)
              /\ (pc = "fetch" /\ cur > end_d) =>
                    \A d \in start_d..end_d :
                        Cardinality({i \in 1..Len(issued) :
                                        issued[i].s <= d /\ d <= issued[i].e}) = 1)
    /\ [][ IssuesRequest => (resp = <<>> /\ consumed = issued) ]_vars

C19_Witness ==
    /\ pc = "fetch"
    /\ cur > end_d
    /\ attempt >= 1
    /\ Len(issued) >= 3

\* q is an initial part of r
IsPrefix(q, r) == Len(q) <= Len(r) /\ SubSeq(r, 1, Len(q)) = q

\* C20: the rows normalized before a property's fetch failed stay in the
\* batch: the handler removes none, the DataFrame holds them all, and a
\* commit writes each of them to the target.
C20_PartialRowsKept ==
    /\ [](pc \in {"stage", "merge", "done"} =>
              /\ df = SortValues(rows)
              /\ \A k \in 1..Len(rows) : \E i \in 1..Len(df) : df[i] = rows[k])
    /\ [](pc \in {"merge", "done"} => stage = df)
    /\ [](pc = "done" =>
              \A k \in 1..Len(rows) :
                  \E j \in 1..Len(target) : target[j] = TargetRow(rows[k], now))
    /\ [][ /\ pc = "except" => rows' = rows
           /\ InSession => IsPrefix(rows, rows')
       ]_vars

\* the fetch of the first property raised after an earlier response of it had
\* been normalized, the second property was fetched to the end, and the merge
\* committed the rows of both
C20_Witness ==
    /\ pc = "done"
    /\ failed = {1}
    /\ Len(refined) = 2
    /\ \A i \in 1..Len(data) : data[i].complete
    /\ \E k \in 1..Len(rows) : rows[k].user = refined[1].user
    /\ \E j \in 1..Len(target) : target[j].user = refined[1].user
    /\ \E j \in 1..Len(target) : target[j].user = refined[2].user

====
